---------------------------- MODULE Spec2Model ----------------------------
(***************************************************************************)
(* CppObjectBindingCheck (checks/D03NoCppBindingsForProperties.cpp): a     *)
(* QQmlSA element pass that warns about property bindings reading a        *)
(* property of a C++ registered object and suggests a property alias.      *)
(*                                                                         *)
(* A QString is modelled as a sequence of one-character strings, so that   *)
(* split, trimmed, contains, startsWith and the regular expression are     *)
(* computed character by character.                                        *)
(***************************************************************************)
EXTENDS Integers, Sequences, FiniteSets

(***************************************************************************)
(* Bounds of the model.                                                    *)
(***************************************************************************)
\* number of elements of the document
NumElements == 3
\* number of times the pass manager walks the document
MaxPasses == 2
\* number of tokens appended after the leading reference of a script
MaxTail == 2
\* number of bindings of the element that holds several
MaxBindings == 2
\* largest start offset of the root element
MaxRootOffset == 1
\* length of the root element's source span in a well-formed document
DocLength == 1000

\* SourceLocation offsets are quint32; the wrap-around of the unsigned
\* arithmetic is kept, with the width scaled down to 16 bits.
OffsetModulus == 65536

(***************************************************************************)
(* QString / QChar operations used by the check.                           *)
(***************************************************************************)
UpperCaseLetters == <<"A", "B", "C", "D", "E", "F", "G", "H", "I", "J", "K", "L", "M", "N", "O", "P", "Q", "R", "S", "T", "U", "V", "W", "X", "Y", "Z">>
LowerCaseLetters == <<"a", "b", "c", "d", "e", "f", "g", "h", "i", "j", "k", "l", "m", "n", "o", "p", "q", "r", "s", "t", "u", "v", "w", "x", "y", "z">>
Digits == <<"0", "1", "2", "3", "4", "5", "6", "7", "8", "9">>

Range(s) == {s[i] : i \in DOMAIN s}

\* [a-zA-Z_]
IsIdentStart(c) == c \in Range(UpperCaseLetters) \cup Range(LowerCaseLetters) \cup {"_"}
\* [a-zA-Z0-9_]
IsIdentChar(c) == IsIdentStart(c) \/ c \in Range(Digits)
\* \s of the regular expression and QChar::isSpace, on the characters used
IsSpace(c) == c \in {" ", "\t", "\n", "\r", "\f"}

\* QString::contains(needle), case sensitive
Contains(s, t) ==
    \E i \in 0..(Len(s) - Len(t)) : SubSeq(s, i + 1, i + Len(t)) = t

\* QString::startsWith(QChar), case sensitive
StartsWith(s, c) == Len(s) > 0 /\ s[1] = c

\* index of the first occurrence of c in s at or after i, Len(s)+1 if none
RECURSIVE IndexOf(_, _, _)
IndexOf(s, c, i) ==
    IF i > Len(s) THEN Len(s) + 1
    ELSE IF s[i] = c THEN i
    ELSE IndexOf(s, c, i + 1)

\* QString::split(sep), keeping empty parts
RECURSIVE Split(_, _)
Split(s, sep) ==
    LET k == IndexOf(s, sep, 1)
    IN  IF k > Len(s) THEN <<s>>
        ELSE <<SubSeq(s, 1, k - 1)>> \o Split(SubSeq(s, k + 1, Len(s)), sep)

\* first index at or after i that is not white space
RECURSIVE SkipSpace(_, _)
SkipSpace(s, i) ==
    IF i <= Len(s) /\ IsSpace(s[i]) THEN SkipSpace(s, i + 1) ELSE i

\* last index at or before i that is not white space
RECURSIVE SkipSpaceBack(_, _)
SkipSpaceBack(s, i) ==
    IF i >= 1 /\ IsSpace(s[i]) THEN SkipSpaceBack(s, i - 1) ELSE i

\* QString::trimmed()
Trimmed(s) == SubSeq(s, SkipSpace(s, 1), SkipSpaceBack(s, Len(s)))

\* first index at or after i that is not an identifier character
RECURSIVE SkipIdent(_, _)
SkipIdent(s, i) ==
    IF i <= Len(s) /\ IsIdentChar(s[i]) THEN SkipIdent(s, i + 1) ELSE i

(***************************************************************************)
(* The check's pure functions.                                             *)
(***************************************************************************)
\* ^([a-zA-Z_][a-zA-Z0-9_]*\s*\.\s*[a-zA-Z_][a-zA-Z0-9_]*) has a match
cppRefPattern(script) ==
    /\ Len(script) >= 1
    /\ IsIdentStart(script[1])
    /\ LET dot == SkipSpace(script, SkipIdent(script, 2))
       IN  /\ dot <= Len(script)
           /\ script[dot] = "."
           /\ LET second == SkipSpace(script, dot + 1)
              IN  second <= Len(script) /\ IsIdentStart(script[second])

cppTypes ==
    { <<"Q", "O", "b", "j", "e", "c", "t">>, <<"Q", "Q", "u", "i", "c", "k", "I", "t", "e", "m">>, <<"Q", "A", "b", "s", "t", "r", "a", "c", "t", "L", "i", "s", "t", "M", "o", "d", "e", "l">>, <<"Q", "S", "o", "r", "t", "F", "i", "l", "t", "e", "r", "P", "r", "o", "x", "y", "M", "o", "d", "e", "l">>,
      <<"Q", "T", "i", "m", "e", "r">>, <<"Q", "S", "e", "t", "t", "i", "n", "g", "s">>, <<"Q", "F", "i", "l", "e", "S", "y", "s", "t", "e", "m", "W", "a", "t", "c", "h", "e", "r">>, <<"Q", "N", "e", "t", "w", "o", "r", "k", "A", "c", "c", "e", "s", "s", "M", "a", "n", "a", "g", "e", "r">> }

isCppRegisteredTypeListOnly(typeName) == typeName \in cppTypes

isCppRegisteredType(typeName) ==
    StartsWith(typeName, "Q") \/ typeName \in cppTypes

parseCppObjectReference(script) ==
    LET parts == Split(script, ".")
    IN  IF Len(parts) >= 2
        THEN [ok |-> TRUE, objectId |-> Trimmed(parts[1]), propertyName |-> Trimmed(parts[2])]
        ELSE [ok |-> FALSE, objectId |-> <<>>, propertyName |-> <<>>]

isEnumBindingNoQualified(script) ==
    LET ref == parseCppObjectReference(script)
    IN  IF ref.ok
        THEN \/ Contains(ref.propertyName, <<"S", "t", "a", "t", "e">>)
             \/ Contains(ref.propertyName, <<"M", "o", "d", "e">>)
             \/ Contains(ref.propertyName, <<"T", "y", "p", "e">>)
             \/ Contains(ref.propertyName, <<"P", "o", "l", "i", "c", "y">>)
        ELSE FALSE

isEnumBinding(script) ==
    LET ref == parseCppObjectReference(script)
    IN  IF ref.ok
        THEN \/ Contains(ref.propertyName, <<"S", "t", "a", "t", "e">>)
             \/ Contains(ref.propertyName, <<"M", "o", "d", "e">>)
             \/ Contains(ref.propertyName, <<"T", "y", "p", "e">>)
             \/ Contains(ref.propertyName, <<"P", "o", "l", "i", "c", "y">>)
             \/ Contains(script, <<":", ":">>)
        ELSE FALSE

(***************************************************************************)
(* The document (QQmlSA::Element tree owned by the host) and the pass      *)
(* manager's walk.                                                         *)
(***************************************************************************)
VARIABLES
    elements,   \* element -> [id, baseTypeName, parentScope, sourceLocation, propertyBindings]
    cursor,     \* the element the pass manager offers next
    pass,       \* number of the current walk over the document
    ran,        \* element -> "unvisited" | "skipped" | "run" (last visit)
    warnings    \* element -> warnings emitted by the last run on it

vars == <<elements, cursor, pass, ran, warnings>>

Elements == 1..NumElements
\* parentScope() of the root: std::nullopt
NoScope == 0

parentScope(element) == elements[element].parentScope
childScopes(scope) == {c \in Elements : elements[c].parentScope = scope}

shouldRunManyBindings(element) == Len(elements[element].propertyBindings) > 1
shouldRun(element) == elements[element].propertyBindings # <<>>

RECURSIVE scopeWalk(_, _)
scopeWalk(objectId, scope) ==
    IF scope = NoScope THEN FALSE
    ELSE IF \E child \in childScopes(scope) :
                /\ elements[child].id = objectId
                /\ isCppRegisteredType(elements[child].baseTypeName)
         THEN TRUE
         ELSE scopeWalk(objectId, parentScope(scope))

isCppRegisteredObjectFromElement(objectId, element) == scopeWalk(objectId, element)
isCppRegisteredObject(objectId, element) == scopeWalk(objectId, parentScope(element))

isCppObjectBinding(script, element) ==
    IF ~cppRefPattern(script) THEN FALSE
    ELSE isCppRegisteredObject(Trimmed(Split(script, ".")[1]), element)

RECURSIVE rootOf(_)
rootOf(element) ==
    IF parentScope(element) # NoScope THEN rootOf(parentScope(element)) ELSE element

getRootElement(binding) == rootOf(binding.containingElement)

qmlsaCppBindingAntiPattern == "qmlsaCppBindingAntiPattern"

emitCppBindingWarningSwapped(binding, objectId, propertyName) ==
    LET aliasName == <<"a", "l", "s", "_">> \o propertyName \o <<"_">> \o objectId
        rootElement == getRootElement(binding)
        rootLocation == elements[rootElement].sourceLocation
        insertLocation ==
            [offset |-> (rootLocation.offset + rootLocation.length + OffsetModulus - 1) % OffsetModulus,
             length |-> rootLocation.length]
    IN  [message |-> "Property binding to C++ object detected. Consider using property alias instead.",
         tag |-> qmlsaCppBindingAntiPattern,
         location |-> binding.sourceLocation,
         fix |-> [hint |-> <<"A", "d", "d", " ", "p", "r", "o", "p", "e", "r", "t", "y", " ", "a", "l", "i", "a", "s", ":", " ", "p", "r", "o", "p", "e", "r", "t", "y", " ", "a", "l", "i", "a", "s", " ">> \o aliasName \o <<":", " ">>
                               \o objectId \o <<".">> \o propertyName,
                  edits |-> << [kind |-> "insertion", location |-> insertLocation,
                                text |-> <<"\n", " ", " ", " ", " ", "p", "r", "o", "p", "e", "r", "t", "y", " ", "a", "l", "i", "a", "s", " ">> \o aliasName \o <<":", " ">>
                                             \o objectId \o <<".">> \o propertyName],
                               [kind |-> "replacement", location |-> binding.sourceLocation,
                                text |-> aliasName] >>]]

\* the warning handed to passManager()->emitWarning
emitCppBindingWarning(binding, objectId, propertyName) ==
    LET aliasName == <<"a", "l", "s", "_">> \o objectId \o <<"_">> \o propertyName
        rootElement == getRootElement(binding)
        rootLocation == elements[rootElement].sourceLocation
        insertLocation ==
            [offset |-> (rootLocation.offset + rootLocation.length + OffsetModulus - 1) % OffsetModulus,
             length |-> rootLocation.length]
    IN  [message |-> "Property binding to C++ object detected. Consider using property alias instead.",
         tag |-> qmlsaCppBindingAntiPattern,
         location |-> binding.sourceLocation,
         fix |-> [hint |-> <<"A", "d", "d", " ", "p", "r", "o", "p", "e", "r", "t", "y", " ", "a", "l", "i", "a", "s", ":", " ", "p", "r", "o", "p", "e", "r", "t", "y", " ", "a", "l", "i", "a", "s", " ">> \o aliasName \o <<":", " ">>
                               \o objectId \o <<".">> \o propertyName,
                  edits |-> << [kind |-> "insertion", location |-> insertLocation,
                                text |-> <<"\n", " ", " ", " ", " ", "p", "r", "o", "p", "e", "r", "t", "y", " ", "a", "l", "i", "a", "s", " ">> \o aliasName \o <<":", " ">>
                                             \o objectId \o <<".">> \o propertyName],
                               [kind |-> "replacement", location |-> binding.sourceLocation,
                                text |-> aliasName] >>]]

\* the warnings emitted for one candidate: none or one
cppObjectReference(binding, objectId, propertyName) ==
    IF ~isEnumBinding(binding.script)
    THEN <<emitCppBindingWarning(binding, objectId, propertyName)>>
    ELSE <<>>

\* the warnings emitted for one binding of an element
checkBinding(binding, element) ==
    IF isCppObjectBinding(binding.script, element)
    THEN LET ref == parseCppObjectReference(binding.script)
         IN  IF ref.ok THEN cppObjectReference(binding, ref.objectId, ref.propertyName)
             ELSE <<>>
    ELSE <<>>

RECURSIVE checkBindingsFrom(_, _)
checkBindingsFrom(element, j) ==
    IF j > Len(elements[element].propertyBindings) THEN <<>>
    ELSE checkBinding(elements[element].propertyBindings[j], element)
             \o checkBindingsFrom(element, j + 1)

\* the warnings emitted for the bindings of an element, in binding order
checkCppObjectBindings(element) == checkBindingsFrom(element, 1)

(***************************************************************************)
(* The documents the pass is run on.                                       *)
(***************************************************************************)
\* binding j of an element, with a source span of its own
MkBindings(element, scripts) ==
    [j \in 1..Len(scripts) |->
        [script |-> scripts[j],
         sourceLocation |-> [offset |-> 200 * element + 40 * j, length |-> Len(scripts[j])],
         containingElement |-> element]]

WholeDocument == [offset |-> 0, length |-> DocLength]

MkElement(element, id, baseTypeName, parent, rootLocation, scripts) ==
    [id |-> id,
     baseTypeName |-> baseTypeName,
     parentScope |-> parent,
     sourceLocation |-> IF parent = NoScope THEN rootLocation
                        ELSE [offset |-> 200 * element, length |-> 199],
     propertyBindings |-> MkBindings(element, scripts)]

\* scripts: a leading reference, or text that is none, followed by a tail
Leads == {<<>>, <<" ">>}
Spaces == {<<>>, <<" ">>}
ObjectIds == {<<"x">>, <<"y">>}
PropertyNames == {<<"y">>, <<"c", "u", "r", "S", "t", "a", "t", "e">>, <<"S", "T", "A", "T", "E">>, <<"M", "o", "d", "e">>, <<"T", "y", "p", "e">>, <<"P", "o", "l", "i", "c", "y">>}
References ==
    {lead \o o \o ws1 \o <<".">> \o ws2 \o p :
        lead \in Leads, o \in ObjectIds, ws1 \in Spaces, ws2 \in Spaces, p \in PropertyNames}
NoReferences == {<<>>, <<"x">>, <<"1", ".", "y">>, <<".", "y">>, <<"x", " ", "y", ".", "z">>}
TailTokens == {<<".", "z">>, <<"+", "z">>, <<":", ":", "z">>, <<" ">>, <<"z">>}

RECURSIVE Tails(_)
Tails(n) ==
    IF n = 0 THEN {<<>>}
    ELSE Tails(n - 1) \cup {t \o k : t \in Tails(n - 1), k \in TailTokens}

Scripts == {h \o t : h \in References \cup NoReferences, t \in Tails(MaxTail)}

TypeNames == {<<"I", "t", "e", "m">>, <<"Q", "T", "i", "m", "e", "r">>, <<"Q", "F", "o", "o">>, <<"M", "y", "Q", "t">>}

\* a root with the other elements as its children
StarParent(element) == IF element = 1 THEN NoScope ELSE 1

\* documents that differ in the tree and in what each element declares
Declarations ==
    { [id |-> <<>>, baseTypeName |-> <<"I", "t", "e", "m">>],
      [id |-> <<"x">>, baseTypeName |-> <<"I", "t", "e", "m">>],
      [id |-> <<"x">>, baseTypeName |-> <<"Q", "T", "i", "m", "e", "r">>],
      [id |-> <<"x">>, baseTypeName |-> <<"Q", "F", "o", "o">>],
      [id |-> <<"y">>, baseTypeName |-> <<"Q", "T", "i", "m", "e", "r">>] }
Parents ==
    {p \in [Elements -> 0..NumElements] :
        \A e \in Elements : IF e = 1 THEN p[e] = NoScope ELSE p[e] \in 1..(e - 1)}
TreeDocuments ==
    { [e \in Elements |->
          MkElement(e, d[e].id, d[e].baseTypeName, p[e], WholeDocument,
                    IF e = holder THEN <<<<"x", ".", "y">>>> ELSE <<>>)] :
      p \in Parents, d \in [Elements -> Declarations], holder \in Elements }

\* the star document: element 2 declares x, the last element holds the bindings
StarDocument(typeName, rootLocation, scripts) ==
    [e \in Elements |->
        MkElement(e, IF e = 2 THEN <<"x">> ELSE <<>>, IF e = 2 THEN typeName ELSE <<"I", "t", "e", "m">>,
                  StarParent(e), rootLocation,
                  IF e = NumElements THEN scripts ELSE <<>>)]

\* documents that differ in the text of the binding and the type of x
TextDocuments == {StarDocument(t, WholeDocument, <<s>>) : t \in TypeNames, s \in Scripts}

\* documents that differ in the source span of the root element
RootLocations == [offset : 0..MaxRootOffset, length : {0, DocLength}]
SpanDocuments == {StarDocument(<<"Q", "T", "i", "m", "e", "r">>, l, <<<<"x", ".", "y">>>>) : l \in RootLocations}

\* documents that differ in the number of bindings of one element
FewScripts == {<<"x", ".", "y">>, <<"x", ".", "M", "o", "d", "e">>, <<"y">>}
RECURSIVE ScriptLists(_)
ScriptLists(n) ==
    IF n = 0 THEN {<<>>}
    ELSE ScriptLists(n - 1) \cup
         {Append(l, s) : l \in {k \in ScriptLists(n - 1) : Len(k) = n - 1}, s \in FewScripts}
BindingDocuments == {StarDocument(<<"Q", "T", "i", "m", "e", "r">>, WholeDocument, l) : l \in ScriptLists(MaxBindings)}

Documents == TreeDocuments \cup TextDocuments \cup SpanDocuments \cup BindingDocuments

(***************************************************************************)
(* The pass manager offers each element to the pass, one walk after the    *)
(* other.                                                                  *)
(***************************************************************************)
Init ==
    /\ elements \in Documents
    /\ cursor = 1
    /\ pass = 1
    /\ ran = [e \in Elements |-> "unvisited"]
    /\ warnings = [e \in Elements |-> <<>>]

\* a run that applies its own fix to the document
runApplyingFix(element) ==
    /\ warnings' = [warnings EXCEPT ![element] = checkCppObjectBindings(element)]
    /\ elements' = [elements EXCEPT ![element].propertyBindings =
                        SelectSeq(@, LAMBDA b : checkBinding(b, element) = <<>>)]

run(element) ==
    /\ warnings' = [warnings EXCEPT ![element] = checkCppObjectBindings(element)]
    /\ UNCHANGED elements

\* the pass manager offers an element for which shouldRun holds
VisitRun(element) ==
    /\ cursor = element
    /\ shouldRun(element)
    /\ run(element)
    /\ ran' = [ran EXCEPT ![element] = "run"]
    /\ cursor' = cursor + 1
    /\ UNCHANGED pass

\* the pass manager offers an element for which shouldRun does not hold
VisitSkip(element) ==
    /\ cursor = element
    /\ ~shouldRun(element)
    /\ ran' = [ran EXCEPT ![element] = "skipped"]
    /\ cursor' = cursor + 1
    /\ UNCHANGED <<elements, pass, warnings>>

\* the pass manager walks the same document again
NextPass ==
    /\ cursor = NumElements + 1
    /\ pass < MaxPasses
    /\ cursor' = 1
    /\ pass' = pass + 1
    /\ UNCHANGED <<elements, ran, warnings>>

Next ==
    \/ \E element \in Elements : VisitRun(element)
    \/ \E element \in Elements : VisitSkip(element)
    \/ NextPass

Spec == Init /\ [][Next]_vars

TypeOK ==
    /\ cursor \in 1..(NumElements + 1)
    /\ pass \in 1..MaxPasses
    /\ ran \in [Elements -> {"unvisited", "skipped", "run"}]
    /\ \A e \in Elements : Len(warnings[e]) <= Len(elements[e].propertyBindings)

(***************************************************************************)
(* Vocabulary of the properties.                                           *)
(***************************************************************************)
Bindings(e) == elements[e].propertyBindings
Root(e) == rootOf(e)

\* the warnings of the last run on e that are located at binding j of e
WarningsFor(e, j) ==
    {k \in DOMAIN warnings[e] : warnings[e][k].location = Bindings(e)[j].sourceLocation}

\* the binding of e a warning of e is located at
BindingOf(e, k) ==
    CHOOSE j \in DOMAIN Bindings(e) : Bindings(e)[j].sourceLocation = warnings[e][k].location

\* optional white space, identifier, optional white space, ".", optional
\* white space, identifier, anchored at the start of the text
LeadingReference(script) ==
    LET first == SkipSpace(script, 1)
        firstEnd == SkipIdent(script, first + 1)
        dot == SkipSpace(script, firstEnd)
        second == SkipSpace(script, dot + 1)
        secondEnd == SkipIdent(script, second + 1)
    IN  IF /\ first <= Len(script) /\ IsIdentStart(script[first])
           /\ dot <= Len(script) /\ script[dot] = "."
           /\ second <= Len(script) /\ IsIdentStart(script[second])
        THEN [ok |-> TRUE,
              objectId |-> SubSeq(script, first, firstEnd - 1),
              propertyName |-> SubSeq(script, second, secondEnd - 1)]
        ELSE [ok |-> FALSE, objectId |-> <<>>, propertyName |-> <<>>]

ToLowerChar(c) ==
    IF \E i \in DOMAIN UpperCaseLetters : UpperCaseLetters[i] = c
    THEN LowerCaseLetters[CHOOSE i \in DOMAIN UpperCaseLetters : UpperCaseLetters[i] = c]
    ELSE c
ToLower(s) == [i \in DOMAIN s |-> ToLowerChar(s[i])]
ContainsAnyCase(s, t) == Contains(ToLower(s), ToLower(t))

ExemptionTerms == {<<"S", "t", "a", "t", "e">>, <<"M", "o", "d", "e">>, <<"T", "y", "p", "e">>, <<"P", "o", "l", "i", "c", "y">>}

\* base type in the allow-list or following the naming convention
NativeTypeName(typeName) == typeName \in cppTypes \/ StartsWith(typeName, "Q")

RECURSIVE StrictAncestors(_)
StrictAncestors(e) ==
    IF parentScope(e) = NoScope THEN {}
    ELSE {parentScope(e)} \cup StrictAncestors(parentScope(e))

\* the children declaring objectId in the nearest enclosing scope that declares it
RECURSIVE NearestDeclarations(_, _)
NearestDeclarations(objectId, scope) ==
    IF scope = NoScope THEN {}
    ELSE LET here == {c \in childScopes(scope) : elements[c].id = objectId}
         IN  IF here # {} THEN here ELSE NearestDeclarations(objectId, parentScope(scope))

\* the children declaring objectId in any enclosing scope
Declarers(objectId, e) ==
    {c \in Elements : c # 1 /\ parentScope(c) \in StrictAncestors(e) /\ elements[c].id = objectId}

ResolvesToNative(objectId, e) ==
    \E c \in NearestDeclarations(objectId, parentScope(e)) :
        NativeTypeName(elements[c].baseTypeName)

ResolvesToPlain(objectId, e) ==
    /\ NearestDeclarations(objectId, parentScope(e)) # {}
    /\ \A c \in NearestDeclarations(objectId, parentScope(e)) :
           ~NativeTypeName(elements[c].baseTypeName)

\* e has been run on and j is one of its bindings
RunOn(e, j) == ran[e] = "run" /\ j \in DOMAIN Bindings(e)

(***************************************************************************)
(* Properties.                                                             *)
(***************************************************************************)
\* C1: a binding whose expression is id.prop, with id resolving to a native
\* child, prop containing no exemption term in any letter case and no "::"
\* in the expression, gets exactly one warning, with its fix.
ExactlyOneWarningPerNativeReference ==
    \A e \in Elements : \A j \in DOMAIN Bindings(e) :
        LET script == Bindings(e)[j].script
            ref == LeadingReference(script)
        IN  ( /\ ran[e] = "run"
              /\ ref.ok
              /\ script = ref.objectId \o <<".">> \o ref.propertyName
              /\ ResolvesToNative(ref.objectId, e)
              /\ \A term \in ExemptionTerms : ~ContainsAnyCase(ref.propertyName, term)
              /\ ~Contains(script, <<":", ":">>) )
            => /\ Cardinality(WarningsFor(e, j)) = 1
               /\ \A k \in WarningsFor(e, j) : Len(warnings[e][k].fix.edits) = 2

NativeReferenceWarned ==
    \E e \in Elements : \E j \in DOMAIN Bindings(e) :
        /\ ran[e] = "run"
        /\ Bindings(e)[j].script = <<"x", ".", "y">>
        /\ ResolvesToNative(<<"x">>, e)
        /\ Cardinality(WarningsFor(e, j)) = 1

\* C2: when the nearest enclosing scope declaring x declares it with a plain
\* type and a scope further out declares x with a native type, x.y gets no
\* warning.
ShadowingNearestWins ==
    \A e \in Elements : \A j \in DOMAIN Bindings(e) :
        LET ref == LeadingReference(Bindings(e)[j].script)
        IN  ( /\ ran[e] = "run"
              /\ ref.ok
              /\ ResolvesToPlain(ref.objectId, e)
              /\ \E c \in Declarers(ref.objectId, e) :
                     NativeTypeName(elements[c].baseTypeName) )
            => WarningsFor(e, j) = {}

\* C3 as stated: a property name containing an exemption term in any letter
\* case, or an expression containing "::", gets no warning.
EnumExemptionAnyCase ==
    \A e \in Elements : \A j \in DOMAIN Bindings(e) :
        LET script == Bindings(e)[j].script
            ref == LeadingReference(script)
        IN  ( /\ ran[e] = "run"
              /\ \/ ref.ok /\ \E term \in ExemptionTerms :
                                  ContainsAnyCase(ref.propertyName, term)
                 \/ Contains(script, <<":", ":">>) )
            => WarningsFor(e, j) = {}

\* C3 amended: a property name containing an exemption term spelled as in
\* the vocabulary, or an expression containing "::", gets no warning.
EnumExemptionCaseSensitive ==
    \A e \in Elements : \A j \in DOMAIN Bindings(e) :
        LET script == Bindings(e)[j].script
            ref == LeadingReference(script)
        IN  ( /\ ran[e] = "run"
              /\ \/ ref.ok /\ \E term \in ExemptionTerms :
                                  Contains(ref.propertyName, term)
                 \/ Contains(script, <<":", ":">>) )
            => WarningsFor(e, j) = {}

NativeEnumReferenceExempted ==
    \E e \in Elements : \E j \in DOMAIN Bindings(e) :
        /\ ran[e] = "run"
        /\ Bindings(e)[j].script = <<"x", ".", "c", "u", "r", "S", "t", "a", "t", "e">>
        /\ ResolvesToNative(<<"x">>, e)
        /\ WarningsFor(e, j) = {}

\* C4: no warning for an expression without a leading reference, nor for an
\* objectId no enclosing scope declares, nor for one whose nearest
\* declaration has a plain base type.
NoWarningOnNonMatches ==
    \A e \in Elements : \A j \in DOMAIN Bindings(e) :
        LET ref == LeadingReference(Bindings(e)[j].script)
        IN  ( /\ ran[e] = "run"
              /\ \/ ~ref.ok
                 \/ Declarers(ref.objectId, e) = {}
                 \/ ResolvesToPlain(ref.objectId, e) )
            => WarningsFor(e, j) = {}

\* C5: the insertion offset of every warning is the root's offset + length
\* - 1, and is not below the root's offset.
InsertionOffsetAtRootClose ==
    \A e \in Elements : \A k \in DOMAIN warnings[e] :
        LET rootLocation == elements[Root(e)].sourceLocation
            insertion == warnings[e][k].fix.edits[1]
        IN  /\ insertion.location.offset = rootLocation.offset + rootLocation.length - 1
            /\ insertion.location.offset >= rootLocation.offset

\* C6 as stated: the fix is an insertion of a new line and
\* "alias <aliasName>: <objectId>.<propertyName>" followed by a replacement
\* of the binding's span by aliasName = "als_" objectId "_" propertyName.
FixTextAlias ==
    \A e \in Elements : \A k \in DOMAIN warnings[e] :
        LET binding == Bindings(e)[BindingOf(e, k)]
            ref == parseCppObjectReference(binding.script)
            aliasName == <<"a", "l", "s", "_">> \o ref.objectId \o <<"_">> \o ref.propertyName
            edits == warnings[e][k].fix.edits
        IN  /\ Len(edits) = 2
            /\ edits[1].kind = "insertion"
            /\ edits[1].text = <<"\n", "a", "l", "i", "a", "s", " ">> \o aliasName \o <<":", " ">> \o ref.objectId
                                   \o <<".">> \o ref.propertyName
            /\ edits[2].kind = "replacement"
            /\ edits[2].location = binding.sourceLocation
            /\ edits[2].text = aliasName

\* C6 amended: the inserted text is a new line, four spaces and
\* "property alias <aliasName>: <objectId>.<propertyName>".
FixTextPropertyAlias ==
    \A e \in Elements : \A k \in DOMAIN warnings[e] :
        LET binding == Bindings(e)[BindingOf(e, k)]
            ref == parseCppObjectReference(binding.script)
            aliasName == <<"a", "l", "s", "_">> \o ref.objectId \o <<"_">> \o ref.propertyName
            edits == warnings[e][k].fix.edits
        IN  /\ Len(edits) = 2
            /\ edits[1].kind = "insertion"
            /\ edits[1].text = <<"\n", " ", " ", " ", " ", "p", "r", "o", "p", "e", "r", "t", "y", " ", "a", "l", "i", "a", "s", " ">> \o aliasName \o <<":", " ">> \o ref.objectId
                                   \o <<".">> \o ref.propertyName
            /\ edits[2].kind = "replacement"
            /\ edits[2].location = binding.sourceLocation
            /\ edits[2].text = aliasName

FixEmitted ==
    \E e \in Elements : \E k \in DOMAIN warnings[e] :
        /\ Bindings(e)[BindingOf(e, k)].script = <<"x", ".", "y">>
        /\ warnings[e][k].fix.edits[2].text = <<"a", "l", "s", "_", "x", "_", "y">>

\* C7: the pass is run on an element exactly if the element has a binding.
ShouldRunIffHasBindings ==
    \A e \in Elements :
        ran[e] # "unvisited" => (ran[e] = "run" <=> Len(Bindings(e)) > 0)

RunAndSkipped ==
    \E e, f \in Elements :
        /\ ran[e] = "run"
        /\ ran[f] = "skipped"
        /\ elements[f].id # <<>>
        /\ childScopes(f) # {}

ReferenceExtraction ==
    \A e \in Elements : \A j \in DOMAIN Bindings(e) :
        LET script == Bindings(e)[j].script
            ref == LeadingReference(script)
            parsed == parseCppObjectReference(script)
        IN  (ran[e] = "run" /\ ref.ok)
            => /\ cppRefPattern(script)
               /\ parsed.ok
               /\ parsed.objectId = ref.objectId
               /\ parsed.propertyName = ref.propertyName
               /\ \A k \in WarningsFor(e, j) :
                      warnings[e][k].fix.edits[2].text =
                          <<"a", "l", "s", "_">> \o ref.objectId \o <<"_">> \o ref.propertyName

\* C10: a warned binding's objectId is declared by a child of a strict
\* ancestor of the element, and no binding of a root element is warned.
WalkStartsAtParentScope ==
    \A e \in Elements :
        /\ \A j \in DOMAIN Bindings(e) :
               WarningsFor(e, j) # {}
               => \E a \in StrictAncestors(e) : \E c \in childScopes(a) :
                      /\ elements[c].id = Trimmed(Split(Bindings(e)[j].script, ".")[1])
                      /\ isCppRegisteredType(elements[c].baseTypeName)
        /\ parentScope(e) = NoScope => warnings[e] = <<>>

RootWithNativeChildNotWarned ==
    \E e \in Elements : \E c \in childScopes(e) :
        /\ parentScope(e) = NoScope
        /\ ran[e] = "run"
        /\ Bindings(e)[1].script = <<"x", ".", "y">>
        /\ elements[c].id = <<"x">>
        /\ elements[c].baseTypeName = <<"Q", "T", "i", "m", "e", "r">>
        /\ warnings[e] = <<>>

=============================================================================
